---------------------------- MODULE Spec2Model ----------------------------
(***************************************************************************)
(* postgres-querybuilder: the parameter Bucket and the Select and Update   *)
(* builders that render a statement with $n placeholders.                  *)
(*                                                                         *)
(* A Rust String is modelled as a sequence of tokens (a word, a single     *)
(* space, a punctuation mark, or one decimal digit), so that format! and   *)
(* join are concatenations and a placeholder can be read back out of the   *)
(* rendered text.  Option<T> is <<>> for None and <<x>> for Some(x).       *)
(***************************************************************************)
EXTENDS Integers, Sequences, FiniteSets

\* ------------------------------------------------------------------ bounds
\* The number of mutating calls made on one builder.
MaxCalls == 3

\* ------------------------------------------------------------------ inputs
Tables == { <<"publishers">> }
Names == { <<"id">>, <<"name">> }
\* The field of where_eq / where_ne and the table of the joins.
WhereFields == { <<"name">> }
JoinTables == { <<"u">> }
Values == { 5, 42 }
Relation == <<"u", ".", "id", " ", "=", " ", "t", ".", "id">>
\* Caller-rendered conditions: one without and one with an embedded
\* placeholder (prelude.rs doc example of where_condition).
RawConditions == { <<"x", " ", "IS", " ", "NULL">>,
                   <<"age", " ", "=", " ", "$", "1">> }
SubQuery == <<"SELECT", " ", "1">>
ComputedExpr == <<"md5", "(", "42", ")">>
\* Caller-rendered SET expressions: the one above, and one that spells a
\* placeholder by hand.
ComputedExprs == { ComputedExpr, <<"md5", "(", "$", "1", ")">> }

\* ------------------------------------------------------------ text helpers
Digits == <<"0", "1", "2", "3", "4", "5", "6", "7", "8", "9">>

IsDigit(tok) == \E d \in 1..10 : Digits[d] = tok

DigitVal(tok) == (CHOOSE d \in 1..10 : Digits[d] = tok) - 1

\* Display of a usize: its decimal digits, most significant first.
RECURSIVE ToString(_)
ToString(n) ==
  IF n < 10 THEN <<Digits[n + 1]>>
  ELSE ToString(n \div 10) \o <<Digits[(n % 10) + 1]>>

\* [String]::join(sep)
RECURSIVE Join(_, _)
Join(items, sep) ==
  IF items = <<>> THEN <<>>
  ELSE IF Len(items) = 1 THEN items[1]
  ELSE items[1] \o sep \o Join(Tail(items), sep)

\* -------------------------------------------------------------- Bucket
\* Bucket::push: appends the value, returns the new length.
\* Fault variant of push: returns the length before the push (0-based).
Push_ReturnsOldLen(content, value) ==
  [content |-> Append(content, value), index |-> Len(content)]

Push(content, value) ==
  LET pushed == Append(content, value)
  IN  [content |-> pushed, index |-> Len(pushed)]

\* Bucket::len
Bucket_len(content) == Len(content)

\* Bucket::get_refs: one reference per item, in iteration order.
RECURSIVE GetRefs(_, _)
GetRefs(content, args) ==
  IF content = <<>> THEN args
  ELSE GetRefs(Tail(content), Append(args, Head(content)))

\* ------------------------------------------------------ clause vocabulary
Join_to_string(j) ==
  CASE j.variant = "Inner" ->
         <<"INNER", " ", "JOIN", " ">> \o j.table \o <<" ", "ON", " ">> \o j.constraint
    [] j.variant = "Left" ->
         <<"LEFT", " ", "JOIN", " ">> \o j.table \o <<" ", "ON", " ">> \o j.constraint
    [] j.variant = "LeftOuter" ->
         <<"LEFT", " ", "OUTER", " ", "JOIN", " ">> \o j.table
           \o <<" ", "ON", " ">> \o j.constraint

Order_to_string(o) ==
  CASE o.variant = "Asc" -> o.column \o <<" ", "ASC">>
    [] o.variant = "Desc" -> o.column \o <<" ", "DESC">>

\* self.order.iter().map(|order| order.to_string()).collect()
OrderStrings(items) == [i \in 1..Len(items) |-> Order_to_string(items[i])]

\* ------------------------------------------------------------------ state
VARIABLES
  kind,          \* which builder was constructed: "select" or "update"
  phase,         \* "building", or "consumed" once get_ref_params took self
  table,         \* SelectBuilder.from_table / UpdateBuilder.table
  with_queries,  \* SelectBuilder.with_queries
  columns,       \* SelectBuilder.columns
  conditions,    \* SelectBuilder.conditions / UpdateBuilder.conditions
  joins,         \* SelectBuilder.joins
  groups,        \* SelectBuilder.groups
  order,         \* SelectBuilder.order
  self_limit,         \* SelectBuilder.limit
  self_offset,        \* SelectBuilder.offset
  fields,        \* UpdateBuilder.fields
  params,        \* Bucket.content of the builder's params
  ret,           \* the last call and what it returned
  hist,          \* history: the calls made so far, per clause
  ncalls         \* number of mutating calls made so far

builder == <<table, with_queries, columns, conditions, joins, groups, order,
             self_limit, self_offset, fields, params>>

vars == <<kind, phase, table, with_queries, columns, conditions, joins, groups,
          order, self_limit, self_offset, fields, params, ret, hist, ncalls>>

Returned(op, index, query, refs) ==
  [op |-> op, index |-> index, query |-> query, refs |-> refs]

\* One call of the history: its method, text arguments, bind value, the index
\* the bucket returned for it and the fragment it created.
Call(op, a, b, value, index, frag) ==
  [op |-> op, a |-> a, b |-> b, value |-> value, index |-> index, frag |-> frag]

Log(h, clause, call) == [h EXCEPT ![clause] = Append(@, call)]

\* "binds" holds every call that pushed a value into the bucket.
Clauses == {"columns", "conditions", "joins", "groups", "order", "with_queries",
            "fields", "limit", "offset", "binds"}

NoText == <<>>

Building == phase = "building"
MayCall == Building /\ ncalls < MaxCalls

\* SelectBuilder::new / UpdateBuilder::new
Init ==
  /\ kind \in {"select", "update"}
  /\ phase = "building"
  /\ table \in Tables
  /\ with_queries = <<>>
  /\ columns = <<>>
  /\ conditions = <<>>
  /\ joins = <<>>
  /\ groups = <<>>
  /\ order = <<>>
  /\ self_limit = <<>>
  /\ self_offset = <<>>
  /\ fields = <<>>
  /\ params = <<>>
  /\ ret = Returned("new", 0, <<>>, <<>>)
  /\ hist = [c \in Clauses |-> <<>>]
  /\ ncalls = 0

\* ------------------------------------------------------- SelectBuilder
\* SelectBuilder::select
\* Fault variant of select: inserts the column at the front.
select_Prepend(column) ==
  /\ MayCall /\ kind = "select"
  /\ columns' = <<column>> \o columns
  /\ hist' = Log(hist, "columns", Call("select", column, NoText, 0, 0, column))
  /\ ret' = Returned("select", 0, <<>>, <<>>)
  /\ ncalls' = ncalls + 1
  /\ UNCHANGED <<kind, phase, table, with_queries, conditions, joins, groups,
                 order, self_limit, self_offset, fields, params>>

select(column) ==
  /\ MayCall /\ kind = "select"
  /\ columns' = Append(columns, column)
  /\ hist' = Log(hist, "columns", Call("select", column, NoText, 0, 0, column))
  /\ ret' = Returned("select", 0, <<>>, <<>>)
  /\ ncalls' = ncalls + 1
  /\ UNCHANGED <<kind, phase, table, with_queries, conditions, joins, groups,
                 order, self_limit, self_offset, fields, params>>

\* SelectBuilder::add_where_raw
add_where_raw(raw) ==
  /\ MayCall /\ kind = "select"
  /\ conditions' = Append(conditions, raw)
  /\ hist' = Log(hist, "conditions", Call("add_where_raw", raw, NoText, 0, 0, raw))
  /\ ret' = Returned("add_where_raw", 0, <<>>, <<>>)
  /\ ncalls' = ncalls + 1
  /\ UNCHANGED <<kind, phase, table, with_queries, columns, joins, groups,
                 order, self_limit, self_offset, fields, params>>

\* QueryBuilder::add_param (both builders): self.params.push(value)
add_param(value) ==
  LET pushed == Push(params, value)
  IN  /\ MayCall
      /\ params' = pushed.content
      /\ hist' = Log(hist, "binds",
                     Call("add_param", NoText, NoText, value, pushed.index, NoText))
      /\ ret' = Returned("add_param", pushed.index, <<>>, <<>>)
      /\ ncalls' = ncalls + 1
      /\ UNCHANGED <<kind, phase, table, with_queries, columns, conditions, joins,
                     groups, order, self_limit, self_offset, fields>>

\* QueryBuilderWithWhere::where_condition (both builders)
where_condition(raw) ==
  /\ MayCall
  /\ conditions' = Append(conditions, raw)
  /\ hist' = Log(hist, "conditions", Call("where_condition", raw, NoText, 0, 0, raw))
  /\ ret' = Returned("where_condition", 0, <<>>, <<>>)
  /\ ncalls' = ncalls + 1
  /\ UNCHANGED <<kind, phase, table, with_queries, columns, joins, groups,
                 order, self_limit, self_offset, fields, params>>

\* QueryBuilderWithWhere::where_eq: add_param, format!, where_condition
\* Fault variant of where_eq: formats the length before the push as index.
where_eq_NextIndex(field, value) ==
  LET pushed == Push(params, value)
      condition == field \o <<" ", "=", " ", "$">> \o ToString(Len(params))
      call == Call("where_eq", field, NoText, value, pushed.index, condition)
  IN  /\ MayCall
      /\ params' = pushed.content
      /\ conditions' = Append(conditions, condition)
      /\ hist' = Log(Log(hist, "binds", call), "conditions", call)
      /\ ret' = Returned("where_eq", 0, <<>>, <<>>)
      /\ ncalls' = ncalls + 1
      /\ UNCHANGED <<kind, phase, table, with_queries, columns, joins, groups,
                     order, self_limit, self_offset, fields>>

where_eq(field, value) ==
  LET pushed == Push(params, value)
      condition == field \o <<" ", "=", " ", "$">> \o ToString(pushed.index)
      call == Call("where_eq", field, NoText, value, pushed.index, condition)
  IN  /\ MayCall
      /\ params' = pushed.content
      /\ conditions' = Append(conditions, condition)
      /\ hist' = Log(Log(hist, "binds", call), "conditions", call)
      /\ ret' = Returned("where_eq", 0, <<>>, <<>>)
      /\ ncalls' = ncalls + 1
      /\ UNCHANGED <<kind, phase, table, with_queries, columns, joins, groups,
                     order, self_limit, self_offset, fields>>

\* QueryBuilderWithWhere::where_ne
where_ne(field, value) ==
  LET pushed == Push(params, value)
      condition == field \o <<" ", "<>", " ", "$">> \o ToString(pushed.index)
      call == Call("where_ne", field, NoText, value, pushed.index, condition)
  IN  /\ MayCall
      /\ params' = pushed.content
      /\ conditions' = Append(conditions, condition)
      /\ hist' = Log(Log(hist, "binds", call), "conditions", call)
      /\ ret' = Returned("where_ne", 0, <<>>, <<>>)
      /\ ncalls' = ncalls + 1
      /\ UNCHANGED <<kind, phase, table, with_queries, columns, joins, groups,
                     order, self_limit, self_offset, fields>>

\* impl QueryBuilderWithJoin for SelectBuilder
inner_join(table_name, relation) ==
  /\ MayCall /\ kind = "select"
  /\ joins' = Append(joins, [variant |-> "Inner", table |-> table_name, constraint |-> relation])
  /\ hist' = Log(hist, "joins", Call("inner_join", table_name, relation, 0, 0, NoText))
  /\ ret' = Returned("inner_join", 0, <<>>, <<>>)
  /\ ncalls' = ncalls + 1
  /\ UNCHANGED <<kind, phase, table, with_queries, columns, conditions,
                 groups, order, self_limit, self_offset, fields, params>>

\* select_builder.rs:222 pushes Join::LeftOuter here.
left_join(table_name, relation) ==
  /\ MayCall /\ kind = "select"
  /\ joins' = Append(joins, [variant |-> "LeftOuter", table |-> table_name, constraint |-> relation])
  /\ hist' = Log(hist, "joins", Call("left_join", table_name, relation, 0, 0, NoText))
  /\ ret' = Returned("left_join", 0, <<>>, <<>>)
  /\ ncalls' = ncalls + 1
  /\ UNCHANGED <<kind, phase, table, with_queries, columns, conditions,
                 groups, order, self_limit, self_offset, fields, params>>

\* select_builder.rs:231 pushes Join::Left here.
left_outer_join(table_name, relation) ==
  /\ MayCall /\ kind = "select"
  /\ joins' = Append(joins, [variant |-> "Left", table |-> table_name, constraint |-> relation])
  /\ hist' = Log(hist, "joins", Call("left_outer_join", table_name, relation, 0, 0, NoText))
  /\ ret' = Returned("left_outer_join", 0, <<>>, <<>>)
  /\ ncalls' = ncalls + 1
  /\ UNCHANGED <<kind, phase, table, with_queries, columns, conditions,
                 groups, order, self_limit, self_offset, fields, params>>

\* impl QueryBuilderWithGroupBy for SelectBuilder
group_by(field) ==
  /\ MayCall /\ kind = "select"
  /\ groups' = Append(groups, field)
  /\ hist' = Log(hist, "groups", Call("group_by", field, NoText, 0, 0, field))
  /\ ret' = Returned("group_by", 0, <<>>, <<>>)
  /\ ncalls' = ncalls + 1
  /\ UNCHANGED <<kind, phase, table, with_queries, columns, conditions, joins,
                 order, self_limit, self_offset, fields, params>>

\* impl QueryBuilderWithOrder for SelectBuilder
order_by(field) ==
  /\ MayCall /\ kind = "select"
  /\ order' = Append(order, field)
  /\ hist' = Log(hist, "order", Call("order_by", field.column, <<field.variant>>, 0, 0, NoText))
  /\ ret' = Returned("order_by", 0, <<>>, <<>>)
  /\ ncalls' = ncalls + 1
  /\ UNCHANGED <<kind, phase, table, with_queries, columns, conditions, joins,
                 groups, self_limit, self_offset, fields, params>>

\* impl QueryBuilderWithQueries for SelectBuilder
with_query(name, query) ==
  /\ MayCall /\ kind = "select"
  /\ with_queries' = Append(with_queries, <<name, query>>)
  /\ hist' = Log(hist, "with_queries", Call("with_query", name, query, 0, 0, NoText))
  /\ ret' = Returned("with_query", 0, <<>>, <<>>)
  /\ ncalls' = ncalls + 1
  /\ UNCHANGED <<kind, phase, table, columns, conditions, joins, groups,
                 order, self_limit, self_offset, fields, params>>

\* impl QueryBuilderWithLimit for SelectBuilder
\* Fault variant of limit: pushes, but keeps an already stored placeholder.
limit_KeepsFirst(n) ==
  LET pushed == Push(params, n)
      call == Call("limit", NoText, NoText, n, pushed.index,
                   <<"$">> \o ToString(pushed.index))
  IN  /\ MayCall /\ kind = "select"
      /\ params' = pushed.content
      /\ self_limit' = IF self_limit = <<>> THEN <<(<<"$">> \o ToString(pushed.index))>> ELSE self_limit
      /\ hist' = Log(Log(hist, "binds", call), "limit", call)
      /\ ret' = Returned("limit", 0, <<>>, <<>>)
      /\ ncalls' = ncalls + 1
      /\ UNCHANGED <<kind, phase, table, with_queries, columns, conditions,
                     joins, groups, order, self_offset, fields>>

limit(n) ==
  LET pushed == Push(params, n)
      call == Call("limit", NoText, NoText, n, pushed.index,
                   <<"$">> \o ToString(pushed.index))
  IN  /\ MayCall /\ kind = "select"
      /\ params' = pushed.content
      /\ self_limit' = <<(<<"$">> \o ToString(pushed.index))>>
      /\ hist' = Log(Log(hist, "binds", call), "limit", call)
      /\ ret' = Returned("limit", 0, <<>>, <<>>)
      /\ ncalls' = ncalls + 1
      /\ UNCHANGED <<kind, phase, table, with_queries, columns, conditions,
                     joins, groups, order, self_offset, fields>>

\* impl QueryBuilderWithOffset for SelectBuilder
\* Fault variant of offset: formats the length before the push as index.
offset_SharesIndex(n) ==
  LET pushed == Push(params, n)
      call == Call("offset", NoText, NoText, n, pushed.index,
                   <<"$">> \o ToString(pushed.index))
  IN  /\ MayCall /\ kind = "select"
      /\ params' = pushed.content
      /\ self_offset' = <<(<<"$">> \o ToString(Len(params)))>>
      /\ hist' = Log(Log(hist, "binds", call), "offset", call)
      /\ ret' = Returned("offset", 0, <<>>, <<>>)
      /\ ncalls' = ncalls + 1
      /\ UNCHANGED <<kind, phase, table, with_queries, columns, conditions,
                     joins, groups, order, self_limit, fields>>

offset(n) ==
  LET pushed == Push(params, n)
      call == Call("offset", NoText, NoText, n, pushed.index,
                   <<"$">> \o ToString(pushed.index))
  IN  /\ MayCall /\ kind = "select"
      /\ params' = pushed.content
      /\ self_offset' = <<(<<"$">> \o ToString(pushed.index))>>
      /\ hist' = Log(Log(hist, "binds", call), "offset", call)
      /\ ret' = Returned("offset", 0, <<>>, <<>>)
      /\ ncalls' = ncalls + 1
      /\ UNCHANGED <<kind, phase, table, with_queries, columns, conditions,
                     joins, groups, order, self_limit, fields>>

\* ------------------------------------------------------- UpdateBuilder
\* impl QueryBuilderWithSet for UpdateBuilder
set(field, value) ==
  LET pushed == Push(params, value)
      assignment == field \o <<" ", "=", " ", "$">> \o ToString(pushed.index)
      call == Call("set", field, NoText, value, pushed.index, assignment)
  IN  /\ MayCall /\ kind = "update"
      /\ params' = pushed.content
      /\ fields' = Append(fields, assignment)
      /\ hist' = Log(Log(hist, "binds", call), "fields", call)
      /\ ret' = Returned("set", 0, <<>>, <<>>)
      /\ ncalls' = ncalls + 1
      /\ UNCHANGED <<kind, phase, table, with_queries, columns, conditions,
                     joins, groups, order, self_limit, self_offset>>

\* Fault variant of set_computed: also pushes into the bucket.
set_computed_Binds(field, value) ==
  /\ MayCall /\ kind = "update"
  /\ fields' = Append(fields, field \o <<" ", "=", " ">> \o value)
  /\ params' = Push(params, 0).content
  /\ hist' = Log(hist, "fields", Call("set_computed", field, value, 0, 0,
                                      field \o <<" ", "=", " ">> \o value))
  /\ ret' = Returned("set_computed", 0, <<>>, <<>>)
  /\ ncalls' = ncalls + 1
  /\ UNCHANGED <<kind, phase, table, with_queries, columns, conditions, joins,
                 groups, order, self_limit, self_offset>>

set_computed(field, value) ==
  /\ MayCall /\ kind = "update"
  /\ fields' = Append(fields, field \o <<" ", "=", " ">> \o value)
  /\ hist' = Log(hist, "fields", Call("set_computed", field, value, 0, 0,
                                      field \o <<" ", "=", " ">> \o value))
  /\ ret' = Returned("set_computed", 0, <<>>, <<>>)
  /\ ncalls' = ncalls + 1
  /\ UNCHANGED <<kind, phase, table, with_queries, columns, conditions, joins,
                 groups, order, self_limit, self_offset, params>>

\* ------------------------------------------------------------- rendering
\* sections.push(value) for Some(value), nothing for None
PushSome(sections, opt) ==
  IF opt = <<>> THEN sections ELSE Append(sections, opt[1])

WithItem(item) == item[1] \o <<" ", "AS", " ", "(">> \o item[2] \o <<")">>

\* self.with_queries.iter().map(|item| format!(..)).collect()
WithItems(items) == [i \in 1..Len(items) |-> WithItem(items[i])]

with_queries_to_query ==
  IF Len(with_queries) > 0
  THEN <<(<<"WITH", " ">> \o Join(WithItems(with_queries), <<",", " ">>))>>
  ELSE <<>>

select_to_query ==
  LET cols == IF Len(columns) = 0 THEN <<"*">> ELSE Join(columns, <<",", " ">>)
  IN  <<"SELECT", " ">> \o cols

Select_from_to_query == <<"FROM", " ">> \o table

\* SelectBuilder::where_to_query and UpdateBuilder::where_to_query
where_to_query ==
  IF Len(conditions) > 0
  THEN <<(<<"WHERE", " ">> \o Join(conditions, <<" ", "AND", " ">>))>>
  ELSE <<>>

group_by_to_query ==
  IF Len(groups) > 0
  THEN <<(<<"GROUP", " ", "BY", " ">> \o Join(groups, <<",", " ">>))>>
  ELSE <<>>

order_by_to_query ==
  IF Len(order) > 0
  THEN <<(<<"ORDER", " ", "BY", " ">>
            \o Join(OrderStrings(order), <<",", " ">>))>>
  ELSE <<>>

limit_to_query ==
  IF self_limit # <<>> THEN <<(<<"LIMIT", " ">> \o self_limit[1])>> ELSE <<>>

offset_to_query ==
  IF self_offset # <<>> THEN <<(<<"OFFSET", " ">> \o self_offset[1])>> ELSE <<>>

\* SelectBuilder::get_query: the joins are stored but never pushed.
\* Fault variant of get_query: GROUP BY pushed before WHERE.
Select_get_query_GroupFirst ==
  LET s1 == PushSome(<<>>, with_queries_to_query)
      s2 == Append(s1, select_to_query)
      s3 == Append(s2, Select_from_to_query)
      s4 == PushSome(s3, group_by_to_query)
      s5 == PushSome(s4, where_to_query)
      s6 == PushSome(s5, order_by_to_query)
      s7 == PushSome(s6, limit_to_query)
      s8 == PushSome(s7, offset_to_query)
  IN  Join(s8, <<" ">>)

Select_get_query ==
  LET s1 == PushSome(<<>>, with_queries_to_query)
      s2 == Append(s1, select_to_query)
      s3 == Append(s2, Select_from_to_query)
      s4 == PushSome(s3, where_to_query)
      s5 == PushSome(s4, group_by_to_query)
      s6 == PushSome(s5, order_by_to_query)
      s7 == PushSome(s6, limit_to_query)
      s8 == PushSome(s7, offset_to_query)
  IN  Join(s8, <<" ">>)

Update_from_to_query == <<"UPDATE", " ">> \o table

set_to_query ==
  IF Len(fields) > 0
  THEN <<(<<"SET", " ">> \o Join(fields, <<",", " ">>))>>
  ELSE <<>>

Update_get_query ==
  LET r1 == Append(<<>>, Update_from_to_query)
      r2 == PushSome(r1, set_to_query)
      r3 == PushSome(r2, where_to_query)
  IN  Join(r3, <<" ">>)

\* What get_query returns in the current state (it takes &self).
Query == IF kind = "select" THEN Select_get_query ELSE Update_get_query

\* QueryBuilder::get_query, as a call
\* Fault variant of get_query: takes the limit out of the builder.
get_query_TakesLimit ==
  /\ Building
  /\ ret' = Returned("get_query", 0, Query, <<>>)
  /\ self_limit' = <<>>
  /\ UNCHANGED <<kind, phase, table, with_queries, columns, conditions, joins,
                 groups, order, self_offset, fields, params, hist, ncalls>>

get_query ==
  /\ Building
  /\ ret' = Returned("get_query", 0, Query, <<>>)
  /\ UNCHANGED <<kind, phase, table, with_queries, columns, conditions, joins,
                 groups, order, self_limit, self_offset, fields, params, hist,
                 ncalls>>

\* QueryBuilder::get_ref_params(self): the builder is moved into the call and
\* its bucket into get_refs; nothing can be called on it afterwards.
\* Fault variant of get_ref_params: borrows the builder instead of moving it.
get_ref_params_Borrows ==
  /\ Building
  /\ ret' = Returned("get_ref_params", 0, <<>>, GetRefs(params, <<>>))
  /\ UNCHANGED <<kind, phase, table, with_queries, columns, conditions, joins,
                 groups, order, self_limit, self_offset, fields, params, hist,
                 ncalls>>

get_ref_params ==
  /\ Building
  /\ phase' = "consumed"
  /\ ret' = Returned("get_ref_params", 0, <<>>, GetRefs(params, <<>>))
  /\ params' = <<>>
  /\ UNCHANGED <<kind, table, with_queries, columns, conditions, joins, groups,
                 order, self_limit, self_offset, fields, hist, ncalls>>

\* ------------------------------------------------------------ behaviours
Orders == { [variant |-> "Asc", column |-> <<"id">>],
            [variant |-> "Desc", column |-> <<"name">>] }

Next ==
  \/ \E c \in Names : select(c)
  \/ \E r \in RawConditions : add_where_raw(r)
  \/ \E v \in Values : add_param(v)
  \/ \E r \in RawConditions : where_condition(r)
  \/ \E f \in WhereFields, v \in Values : where_eq(f, v)
  \/ \E f \in WhereFields, v \in Values : where_ne(f, v)
  \/ \E t \in JoinTables : inner_join(t, Relation)
  \/ \E t \in JoinTables : left_join(t, Relation)
  \/ \E t \in JoinTables : left_outer_join(t, Relation)
  \/ \E f \in Names : group_by(f)
  \/ \E o \in Orders : order_by(o)
  \/ \E n \in Names : with_query(n, SubQuery)
  \/ \E n \in Values : limit(n)
  \/ \E n \in Values : offset(n)
  \/ \E f \in Names, v \in Values : set(f, v)
  \/ \E f \in Names, e \in ComputedExprs : set_computed(f, e)
  \/ get_query
  \/ get_ref_params

Spec == Init /\ [][Next]_vars

\* ------------------------------------------------- reading rendered text
Contains(text, sub) ==
  \E i \in 1..(Len(text) - Len(sub) + 1) : SubSeq(text, i, i + Len(sub) - 1) = sub

Occurrences(text, tok) == Cardinality({i \in 1..Len(text) : text[i] = tok})

\* The number spelled by the digits of text from position i on.
RECURSIVE ParseDigits(_, _, _)
ParseDigits(text, i, acc) ==
  IF i <= Len(text) /\ IsDigit(text[i])
  THEN ParseDigits(text, i + 1, acc * 10 + DigitVal(text[i]))
  ELSE acc

\* The indices n of the placeholders $n that occur in text.
Placeholders(text) ==
  { ParseDigits(text, i + 1, 0) :
      i \in {j \in 1..(Len(text) - 1) : text[j] = "$" /\ IsDigit(text[j + 1])} }

\* The bound values as the driver sees them: the bucket while building, the
\* sequence get_ref_params returned once consumed.
Bound == IF Building THEN params ELSE ret.refs

Binds == hist["binds"]

\* ------------------------------------------------------------------- C1
\* C1: starting from an empty bucket, the i-th push returns index i, len()
\* equals the number of pushes, and get_refs returns exactly the pushed
\* values in push order.
C1_PushIndices ==
  /\ \A i \in 1..Len(Binds) : Binds[i].index = i
  /\ Building => Bucket_len(params) = Len(Binds)
  /\ Building => GetRefs(params, <<>>) = [i \in 1..Len(Binds) |-> Binds[i].value]
  /\ phase = "consumed" => ret.refs = [i \in 1..Len(Binds) |-> Binds[i].value]

C1_Witness ==
  /\ phase = "consumed"
  /\ Len(ret.refs) >= 2
  /\ ret.refs[1] # ret.refs[2]

\* ------------------------------------------------------------------- C2
\* C2: the placeholder $i in the fragment a value-bearing call created
\* denotes the value passed to that call (element i of the bound values,
\* 1-based); add_param's returned index does the same; indices follow the
\* order of the calls, not the position of the clause in the query.
InBuilder(c) ==
  CASE c.op \in {"where_eq", "where_ne"} ->
         \E j \in 1..Len(conditions) : conditions[j] = c.frag
    [] c.op = "set" -> \E j \in 1..Len(fields) : fields[j] = c.frag
    [] c.op = "limit" ->
         hist["limit"][Len(hist["limit"])] = c => self_limit = <<c.frag>>
    [] c.op = "offset" ->
         hist["offset"][Len(hist["offset"])] = c => self_offset = <<c.frag>>
    [] OTHER -> TRUE

C2_PlaceholderDenotesValue ==
  \A i \in 1..Len(Binds) :
    LET c == Binds[i]
    IN  /\ c.index = i
        /\ c.index \in 1..Len(Bound) /\ Bound[c.index] = c.value
        /\ c.op # "add_param" =>
             /\ Placeholders(c.frag) # {}
             /\ \A k \in Placeholders(c.frag) :
                  k \in 1..Len(Bound) /\ Bound[k] = c.value
             /\ InBuilder(c)

\* where_eq then set on an UpdateBuilder: SET ... $2 WHERE ... $1, [42, 5].
C2_Witness ==
  /\ kind = "update" /\ Building
  /\ Query = <<"UPDATE", " ", "publishers", " ", "SET", " ", "id", " ", "=", " ",
               "$", "2", " ", "WHERE", " ", "name", " ", "=", " ", "$", "1">>
  /\ params = <<42, 5>>

\* ------------------------------------------------------------------- C3
\* C3: once a join method was called on a SelectBuilder, get_query contains
\* the rendered joins, space-joined in call order, after the FROM section and
\* before the WHERE section.
RenderedJoins == Join([i \in 1..Len(joins) |-> Join_to_string(joins[i])], <<" ">>)

C3_JoinsRendered ==
  (Building /\ kind = "select" /\ joins # <<>> /\ ret.op = "get_query") =>
    Contains(ret.query,
             Select_from_to_query \o <<" ">> \o RenderedJoins
               \o (IF conditions # <<>> THEN <<" ">> \o where_to_query[1] ELSE <<>>))

\* ------------------------------------------------------------------- C4
\* C4: each join method records the Join of its own kind: inner_join renders
\* INNER JOIN t ON c, left_join LEFT JOIN t ON c, left_outer_join LEFT OUTER
\* JOIN t ON c.
JoinKeyword(op) ==
  CASE op = "inner_join" -> <<"INNER", " ", "JOIN", " ">>
    [] op = "left_join" -> <<"LEFT", " ", "JOIN", " ">>
    [] op = "left_outer_join" -> <<"LEFT", " ", "OUTER", " ", "JOIN", " ">>

C4_JoinOfOwnKind ==
  \A i \in 1..Len(hist["joins"]) :
    LET c == hist["joins"][i]
    IN  /\ i \in 1..Len(joins)
        /\ Join_to_string(joins[i]) = JoinKeyword(c.op) \o c.a \o <<" ", "ON", " ">> \o c.b

\* ------------------------------------------------------------------- C5
\* C5: get_query emits the sections in one fixed order whatever the order of
\* the calls (Select: WITH, SELECT, FROM, WHERE, GROUP BY, ORDER BY, LIMIT,
\* OFFSET; Update: UPDATE, SET, WHERE), separated by single spaces with no
\* trailing space; an empty clause contributes no keyword, and an empty
\* projection renders as "*".
Spaced(opt) == IF opt = <<>> THEN <<>> ELSE <<" ">> \o opt[1]

Projection == IF columns = <<>> THEN <<"*">> ELSE Join(columns, <<",", " ">>)

ExpectedSelect ==
  (IF with_queries_to_query = <<>> THEN <<>>
   ELSE with_queries_to_query[1] \o <<" ">>)
    \o <<"SELECT", " ">> \o Projection \o <<" ", "FROM", " ">> \o table
    \o Spaced(where_to_query) \o Spaced(group_by_to_query)
    \o Spaced(order_by_to_query) \o Spaced(limit_to_query)
    \o Spaced(offset_to_query)

ExpectedUpdate ==
  <<"UPDATE", " ">> \o table \o Spaced(set_to_query) \o Spaced(where_to_query)

HasKeyword(text, k) == \E i \in 1..Len(text) : text[i] = k

C5_FixedSectionOrder ==
  LET q == Query
  IN  Building =>
        /\ kind = "select" => q = ExpectedSelect
        /\ kind = "update" => q = ExpectedUpdate
        /\ q[Len(q)] # " "
        /\ \A i \in 1..(Len(q) - 1) : ~(q[i] = " " /\ q[i + 1] = " ")
        /\ HasKeyword(q, "WITH") <=> with_queries # <<>>
        /\ HasKeyword(q, "WHERE") <=> conditions # <<>>
        /\ HasKeyword(q, "GROUP") <=> groups # <<>>
        /\ HasKeyword(q, "ORDER") <=> order # <<>>
        /\ HasKeyword(q, "LIMIT") <=> self_limit # <<>>
        /\ HasKeyword(q, "OFFSET") <=> self_offset # <<>>
        /\ HasKeyword(q, "SET") <=> fields # <<>>
        /\ (kind = "select" /\ ncalls = 0) =>
             q = <<"SELECT", " ", "*", " ", "FROM", " ">> \o table
        /\ (kind = "update" /\ ncalls = 0) => q = <<"UPDATE", " ">> \o table

\* limit, then group_by, then where_eq: rendered WHERE, GROUP BY, LIMIT.
C5_Witness ==
  /\ kind = "select" /\ ret.op = "get_query" /\ ret.query = Query
  /\ self_limit = <<(<<"$", "1">>)>>
  /\ Len(groups) = 1
  /\ Len(conditions) = 1 /\ Placeholders(conditions[1]) = {2}

\* ------------------------------------------------------------------- C6
\* C6: get_query is pure and repeatable: a call changes neither the clause
\* lists, the limit/offset text nor the bucket, and a call that follows
\* another with no mutating call in between returns the same string.
C6_GetQueryPure ==
  [][ret'.op = "get_query" =>
       /\ builder' = builder
       /\ ret.op = "get_query" => ret'.query = ret.query]_vars

C6_Witness ==
  /\ ret.op = "get_query" /\ ret.query = Query
  /\ conditions # <<>> /\ params # <<>> /\ self_limit # <<>>

\* ------------------------------------------------------------------- C7
\* C7 (as stated): every limit/offset call pushes its value; after several
\* calls the query has exactly one LIMIT (OFFSET) section whose placeholder
\* is the most recent call's index; the earlier values stay in the bucket at
\* their positions and no placeholder in the rendered query references them.
Last(calls) == calls[Len(calls)]

Earlier(calls) == {calls[i].index : i \in 1..(Len(calls) - 1)}

LimitOffsetPushed ==
  /\ \A cl \in {"limit", "offset"} : \A i \in 1..Len(hist[cl]) :
       LET c == hist[cl][i]
       IN  c.index \in 1..Len(params) /\ params[c.index] = c.value
  /\ Len(params) = Len(Binds)
  /\ hist["limit"] # <<>> =>
       /\ Occurrences(Query, "LIMIT") = 1
       /\ limit_to_query # <<>> /\ Contains(Query, limit_to_query[1])
       /\ Placeholders(limit_to_query[1]) = {Last(hist["limit"]).index}
  /\ hist["offset"] # <<>> =>
       /\ Occurrences(Query, "OFFSET") = 1
       /\ offset_to_query # <<>> /\ Contains(Query, offset_to_query[1])
       /\ Placeholders(offset_to_query[1]) = {Last(hist["offset"]).index}

Orphans == Earlier(hist["limit"]) \cup Earlier(hist["offset"])

C7_OrphansUnreferenced ==
  (Building /\ kind = "select") =>
    /\ LimitOffsetPushed
    /\ Orphans \cap Placeholders(Query) = {}

\* C7 (amended): the same, except that the earlier values are referenced by
\* no placeholder the builder wrote itself (the LIMIT and OFFSET sections and
\* the where_eq / where_ne conditions); a raw condition the caller rendered
\* may still spell such an index.
BuilderWritten ==
  UNION ( {Placeholders(Spaced(limit_to_query)), Placeholders(Spaced(offset_to_query))}
          \cup { Placeholders(conditions[j]) :
                   j \in {k \in 1..Len(conditions) :
                            hist["conditions"][k].op \in {"where_eq", "where_ne"}} } )

C7_OrphansUnreferencedByBuilder ==
  (Building /\ kind = "select") =>
    /\ LimitOffsetPushed
    /\ Len(hist["conditions"]) = Len(conditions)
    /\ Orphans \cap BuilderWritten = {}

C7_Witness ==
  /\ Building /\ Len(hist["limit"]) >= 2
  /\ hist["limit"][1].value # hist["limit"][2].value
  /\ conditions # <<>>

\* ------------------------------------------------------------------- C8
\* C8: building -> consumed, consumed terminal: get_ref_params consumes the
\* builder, and after it no call of any kind occurs on that builder (so it is
\* consumed at most once).
C8_ConsumedTerminal ==
  /\ [](ret.op = "get_ref_params" <=> phase = "consumed")
  /\ [][phase = "consumed" => UNCHANGED vars]_vars
  /\ [][phase' = "consumed" => phase = "building"]_vars

C8_Witness ==
  /\ phase = "consumed" /\ ret.op = "get_ref_params"
  /\ Len(ret.refs) >= 2 /\ ncalls < MaxCalls

\* ------------------------------------------------------------------- C9
\* C9: within each list-valued clause the rendered fragments appear in the
\* order of the calls that added them, whatever is interleaved: columns,
\* GROUP BY fields, ORDER BY terms, CTEs and SET assignments joined by ", ",
\* WHERE conditions by " AND "; nothing is reordered, removed or deduplicated.
Placeholder(c) == <<"$">> \o ToString(c.index)

\* The fragment a call is to contribute, from the call's own arguments.
FragmentOf(c) ==
  CASE c.op \in {"select", "group_by", "add_where_raw", "where_condition"} -> c.a
    [] c.op = "where_eq" -> c.a \o <<" ", "=", " ">> \o Placeholder(c)
    [] c.op = "where_ne" -> c.a \o <<" ", "<>", " ">> \o Placeholder(c)
    [] c.op = "set" -> c.a \o <<" ", "=", " ">> \o Placeholder(c)
    [] c.op = "set_computed" -> c.a \o <<" ", "=", " ">> \o c.b
    [] c.op = "order_by" ->
         c.a \o <<" ", (IF c.b = <<"Asc">> THEN "ASC" ELSE "DESC")>>
    [] c.op = "with_query" -> c.a \o <<" ", "AS", " ", "(">> \o c.b \o <<")">>

Fragments(calls) == [i \in 1..Len(calls) |-> FragmentOf(calls[i])]

InCallOrder(clause, sep) == Join(Fragments(hist[clause]), sep)

Comma == <<",", " ">>

C9_FragmentsInCallOrder ==
  LET q == Query
  IN  Building =>
        /\ columns = Fragments(hist["columns"])
        /\ groups = Fragments(hist["groups"])
        /\ conditions = Fragments(hist["conditions"])
        /\ fields = Fragments(hist["fields"])
        /\ OrderStrings(order) = Fragments(hist["order"])
        /\ WithItems(with_queries) = Fragments(hist["with_queries"])
        /\ hist["columns"] # <<>> =>
             Contains(q, <<"SELECT", " ">> \o InCallOrder("columns", Comma)
                           \o <<" ", "FROM", " ">>)
        /\ hist["groups"] # <<>> =>
             Contains(q, <<"GROUP", " ", "BY", " ">> \o InCallOrder("groups", Comma))
        /\ hist["order"] # <<>> =>
             Contains(q, <<"ORDER", " ", "BY", " ">> \o InCallOrder("order", Comma))
        /\ hist["with_queries"] # <<>> =>
             Contains(q, <<"WITH", " ">> \o InCallOrder("with_queries", Comma)
                           \o <<" ", "SELECT", " ">>)
        /\ hist["fields"] # <<>> =>
             Contains(q, <<"SET", " ">> \o InCallOrder("fields", Comma))
        /\ hist["conditions"] # <<>> =>
             Contains(q, <<"WHERE", " ">>
                           \o InCallOrder("conditions", <<" ", "AND", " ">>))

\* Two different columns selected around a where_eq, then rendered.
C9_Witness ==
  /\ Building /\ kind = "select" /\ ret.op = "get_query"
  /\ Len(columns) = 2 /\ columns[1] # columns[2]
  /\ Len(conditions) = 1 /\ Binds # <<>>
  /\ Binds[1].op = "where_eq"

\* ------------------------------------------------------------------ C10
\* C10: the calls that carry no bind value leave the bucket as it is and
\* change at most their own clause list, so every index written into an
\* earlier fragment keeps denoting the same value.
NoBindOps ==
  {"select", "add_where_raw", "where_condition", "inner_join", "left_join",
   "left_outer_join", "group_by", "order_by", "with_query", "set_computed",
   "get_query"}

C10_NoBindFrame ==
  [][ret'.op \in NoBindOps =>
       LET op == ret'.op
       IN  /\ params' = params
           /\ Bucket_len(params') = Bucket_len(params)
           /\ table' = table /\ self_limit' = self_limit /\ self_offset' = self_offset
           /\ op # "select" => columns' = columns
           /\ op \notin {"add_where_raw", "where_condition"} =>
                conditions' = conditions
           /\ op \notin {"inner_join", "left_join", "left_outer_join"} =>
                joins' = joins
           /\ op # "group_by" => groups' = groups
           /\ op # "order_by" => order' = order
           /\ op # "with_query" => with_queries' = with_queries
           /\ op # "set_computed" => fields' = fields
           /\ \A i \in 1..Len(Binds) :
                /\ Binds[i].index \in 1..Len(params')
                /\ params'[Binds[i].index] = Binds[i].value]_vars

\* A no-bind call made on a builder that already holds bound fragments.
C10_Witness ==
  /\ Building /\ ret.op \in NoBindOps \ {"get_query"}
  /\ Len(params) >= 2 /\ Len(conditions) >= 1

\* ------------------------------------------------------------------ C11
\* C11 (as stated): on a builder on which add_param was never called
\* directly, no raw condition embeds a placeholder, and limit and offset were
\* each called at most once, the placeholder indices in the rendered query
\* are exactly 1..len(bucket), each occurring exactly once.
PlaceholderCount(text, n) ==
  Cardinality({i \in 1..(Len(text) - 1) :
                 /\ text[i] = "$" /\ IsDigit(text[i + 1])
                 /\ ParseDigits(text, i + 1, 0) = n})

EachIndexOnce ==
  LET q == Query
  IN  /\ Placeholders(q) = 1..Bucket_len(params)
      /\ \A n \in 1..Bucket_len(params) : PlaceholderCount(q, n) = 1

NoDirectAddParam == \A i \in 1..Len(Binds) : Binds[i].op # "add_param"

LimitOffsetAtMostOnce == Len(hist["limit"]) <= 1 /\ Len(hist["offset"]) <= 1

NoRawConditionPlaceholder ==
  \A i \in 1..Len(hist["conditions"]) :
    hist["conditions"][i].op \in {"add_where_raw", "where_condition"} =>
      Placeholders(hist["conditions"][i].a) = {}

C11_EachIndexOnce ==
  (Building /\ NoDirectAddParam /\ LimitOffsetAtMostOnce
     /\ NoRawConditionPlaceholder) => EachIndexOnce

\* C11 (amended): the same, provided that no text the caller supplies at all
\* (table, column, field and CTE names, raw conditions, set_computed
\* expressions, CTE sub-queries) embeds a placeholder.
NoCallerPlaceholder ==
  /\ Placeholders(table) = {}
  /\ \A cl \in Clauses \ {"limit", "offset", "binds"} :
       \A i \in 1..Len(hist[cl]) :
         Placeholders(hist[cl][i].a) = {} /\ Placeholders(hist[cl][i].b) = {}

C11_EachIndexOnceNoCallerText ==
  (Building /\ NoDirectAddParam /\ LimitOffsetAtMostOnce
     /\ NoCallerPlaceholder) => EachIndexOnce

\* limit, offset and where_eq each called once: three values, $1..$3.
C11_Witness ==
  /\ Building /\ kind = "select"
  /\ NoDirectAddParam /\ LimitOffsetAtMostOnce /\ NoCallerPlaceholder
  /\ self_limit # <<>> /\ self_offset # <<>> /\ conditions # <<>>
  /\ Bucket_len(params) = 3

============================================================================
